---- MODULE Spec2Model ----
(***************************************************************************)
(* The MCP tool crawler workflow                                           *)
(* (mcp-tool-crawler-py/infrastructure/step-functions/mcp-tool-crawler.json)*)
(* as a state machine.  One action per workflow state; a Task state has a  *)
(* success and a failure outcome.  The Map state runs one iterator per     *)
(* source; an error that no Retry/Catch of the iterator handles fails the  *)
(* Map state, which stops the other iterators and fails the execution.     *)
(***************************************************************************)
EXTENDS Integers, FiniteSets, Sequences

\* ------------------------------------------------------------------ bounds
\* Largest number of sources GetSourcesToCrawl returns in the model.
MaxSources == 2

\* ------------------------------------------------------- program constants
\* MapSourcesToProcess.MaxConcurrency / CRAWLER_CONCURRENCY_LIMIT default.
MaxConcurrency == 5
\* Retry[0].MaxAttempts of RunGeneratedCrawler and RunKnownCrawler: the
\* number of retries after the first attempt.
MaxAttempts == 2
\* Retry[0].IntervalSeconds and Retry[0].BackoffRate.
IntervalSeconds == 2
BackoffRate == 2

SourceIds == 1..MaxSources

\* Errors a crawler run can raise (one transient, one non-transient class).
RunErrors == {"TransientFetchError", "CapabilityViolation"}

NoError == "none"

VARIABLES
    pc,               \* the workflow state the execution is in
    concurrencyLimit, \* configured limit of concurrent crawls
    sourcesPresent,   \* $.sources exists in the state input
    sources,          \* $.sources: the batch (a prefix of SourceIds, in order)
    hasKnownCrawler,  \* $.hasKnownCrawler of each source
    st,               \* per source: position of its iterator
    attempts,         \* per source: crawler invocations started
    backoff,          \* per source: seconds left of the retry wait in progress
    error,            \* per source: error of the last failed task
    rows,             \* per source: crawl_results rows written
    strategies,       \* per source: crawler_strategies rows saved
    cancelled,        \* the batch was cancelled
    mergeCount,       \* invocations of ProcessCatalog
    mergeInput,       \* $.crawlResults handed to ProcessCatalog (by source)
    notifyCount,      \* completed invocations of NotifyCrawlComplete
    summary,          \* the emitted batch summary (processed = 0 - 1: none)
    proven,           \* per source: a generated strategy completed a run
    crawls,           \* executions of the workflow started so far
    catalog,          \* the tool catalog: a set of Tool rows
    now,              \* the clock of the catalog (one tick per merge)
    batch,            \* candidates of the batch being merged, in order
    crawlResult,      \* per source: the counts of its CrawlResult
    mergeSummary,     \* MergeSummary of the last merge
    mpc,              \* position of the catalog processor
    sourceType,       \* type of each source in the source store
    activeStrategy,   \* per source: the saved strategy it points to (0: none)
    users,            \* backend: the documents of the users collection
    uniqueEmail,      \* backend: the collection has a unique index on email
    reqPc,            \* backend: per register request, where its handler is
    reqEmail,         \* backend: per register request, req.body.email
    reqStatus,        \* backend: per register request, the status answered
    authService,      \* frontend: _isAuthenticated and _user of authService
    authContext,      \* frontend: isAuthenticated and user of AuthProvider
    providerMounted,  \* frontend: the effect of AuthProvider has run
    pending,          \* frontend: awaits of AuthProvider not yet resumed
    lastCall,         \* frontend: the last method called on authService
    mounted,          \* MCPWatch is rendered
    isWatching,       \* MCPWatch: isWatching
    events,           \* MCPWatch: events (each tagged with its watch)
    timers,           \* the interval timers that are set
    watchInterval,    \* MCPWatch: the timer of the effect's closure (0: none)
    config,           \* MCPFeatures: config.watchInterval, config.autoRefresh
    watchNo,          \* MCPWatch: watches started so far
    effectPending     \* MCPWatch: a committed render whose effect has not run

vars == <<pc, concurrencyLimit, sourcesPresent, sources, hasKnownCrawler, st,
          attempts, backoff, error, rows, strategies, activeStrategy, cancelled, mergeCount,
          mergeInput, notifyCount, summary, proven, crawls, catalog, now,
          batch, crawlResult, mergeSummary, mpc, sourceType, users,
          uniqueEmail, reqPc, reqEmail, reqStatus, authService, authContext,
          providerMounted, pending, lastCall, mounted, isWatching, events,
          timers, watchInterval, config, watchNo, effectPending>>

batchVars == <<concurrencyLimit, sourceType, sourcesPresent, sources,
               hasKnownCrawler>>
catVars == <<catalog, now, batch, crawlResult, mergeSummary, mpc>>
registerVars == <<users, uniqueEmail, reqPc, reqEmail, reqStatus>>
authVars == <<authService, authContext, providerMounted, pending, lastCall>>
watchVars == <<mounted, isWatching, events, timers, watchInterval, config,
               watchNo, effectPending>>
appVars == <<registerVars, authVars, watchVars>>
storeVars == <<crawls, catVars, appVars>>
tailVars == <<mergeCount, mergeInput, notifyCount, summary, storeVars>>

\* ------------------------------------------------------- iterator positions
RunStates == {"RunKnownCrawler", "RunGeneratedCrawler"}
RecordStates == {"RecordCrawlSuccess", "RecordCrawlFailure"}

\* Positions of an iterator that has been started and has not ended.
ActiveStates ==
    {"CheckCrawlerStrategy", "GenerateCrawlerStrategy", "SaveCrawlerStrategy",
     "RetryWait"} \cup RunStates \cup RecordStates

\* Ends of an iterator the Map state accepts (End: true reached), plus a
\* source the batch skipped.
TerminalStates == {"Succeeded", "Failed", "Skipped"}

Active == {s \in sources : st[s] \in ActiveStates}

NoSummary == [processed |-> 0 - 1, succeeded |-> 0, failed |-> 0, skipped |-> 0]

\* CrawlResult counts of a source no crawl has been recorded for, and the
\* MergeSummary before the first merge.
NoCrawlResult ==
    [success |-> FALSE, toolsDiscovered |-> 0, newTools |-> 0, updatedTools |-> 0]

NoMergeSummary == [newCount |-> 0, updatedCount |-> 0]

\* The stores before the first execution: no run of a generated strategy,
\* an empty catalog.
StoreInit ==
    /\ proven = [s \in SourceIds |-> FALSE]
    /\ activeStrategy = [s \in SourceIds |-> 0]
    /\ crawls = 1
    /\ catalog = {}
    /\ now = 0
    /\ batch = <<>>
    /\ crawlResult = [s \in SourceIds |-> NoCrawlResult]
    /\ mergeSummary = NoMergeSummary
    /\ mpc = "idle"

\* The source types of the source list.
SourceTypes ==
    {"github_awesome_list", "github_repository", "website", "rss_feed",
     "manually_added"}

\* The types the known crawler runner has a built-in crawler for.
BuiltInTypes == {"github_awesome_list", "github_repository", "rss_feed"}

\* ------------------------------------------------- backend and frontend
MaxRequests == 2
MaxPending == 3
MaxEvents == 2
MaxWatches == 2

RequestIds == 1..MaxRequests
Emails == {"a@x", "b@x"}
NoEmail == "none"

\* No user is registered and no register request is in flight.
RegisterInit ==
    /\ users = {}
    /\ reqPc = [r \in RequestIds |-> "idle"]
    /\ reqEmail = [r \in RequestIds |-> NoEmail]
    /\ reqStatus = [r \in RequestIds |-> 0]

\* A User is named by its id.
NoUser == "null"
LocalUser == "local-user"

\* new LocalAuthService() and the first render of AuthProvider.
AuthInit ==
    /\ authService = [isAuthenticated |-> FALSE, user |-> NoUser]
    /\ authContext = [isAuthenticated |-> FALSE, user |-> NoUser]
    /\ providerMounted = FALSE
    /\ pending = <<>>
    /\ lastCall = "none"

DefaultInterval == 5000
Step == 1000
Intervals == {DefaultInterval, DefaultInterval + Step}
defaultConfig == [watchInterval |-> DefaultInterval, autoRefresh |-> TRUE]

\* MCPWatch after its first render and effect: not watching, no timer.
WatchInit ==
    /\ mounted = TRUE
    /\ isWatching = FALSE
    /\ events = <<>>
    /\ timers = {}
    /\ watchInterval = 0
    /\ config = defaultConfig
    /\ watchNo = 0
    /\ effectPending = FALSE

\* The state of an execution that has not started, with empty stores.
ExecutionInit ==
    /\ pc = "InitializeSources"
    /\ StoreInit
    /\ sourcesPresent = FALSE
    /\ sources = {}
    /\ hasKnownCrawler = [s \in SourceIds |-> FALSE]
    /\ st = [s \in SourceIds |-> "Pending"]
    /\ attempts = [s \in SourceIds |-> 0]
    /\ backoff = [s \in SourceIds |-> 0]
    /\ error = [s \in SourceIds |-> NoError]
    /\ rows = [s \in SourceIds |-> 0]
    /\ strategies = [s \in SourceIds |-> 0]
    /\ cancelled = FALSE
    /\ mergeCount = 0
    /\ mergeInput = {}
    /\ notifyCount = 0
    /\ summary = NoSummary
    /\ RegisterInit
    /\ AuthInit
    /\ WatchInit

Init ==
    /\ ExecutionInit
    /\ uniqueEmail = FALSE
    /\ concurrencyLimit \in 1..MaxConcurrency
    /\ sourceType = [s \in SourceIds |-> "github_awesome_list"]

iterVars == <<st, attempts, backoff, error, rows, strategies, activeStrategy, proven, cancelled>>

ExecutionEndsQuietly ==
    /\ pc' = "Done"

\* A top-level Task state fails with no Retry and no Catch: the execution fails.
ExecutionFails ==
    /\ pc' = "ExecutionFailed"

InitializeSources ==
    /\ pc = "InitializeSources"
    /\ \/ pc' = "GetSourcesToCrawl"
       \/ ExecutionFails
    /\ UNCHANGED <<batchVars, iterVars, tailVars>>

\* ResultPath $.sources: the result, also an empty list, is stored under
\* $.sources of the state input.
GetSourcesToCrawl ==
    /\ pc = "GetSourcesToCrawl"
    /\ \/ /\ \E n \in 0..MaxSources, known \in [SourceIds -> BOOLEAN] :
               /\ \A s \in SourceIds : s > n => ~known[s]
               /\ sources' = 1..n
               /\ hasKnownCrawler' = known
          /\ sourcesPresent' = TRUE
          /\ pc' = "CheckSourcesExist"
       \/ /\ ExecutionFails
          /\ UNCHANGED <<sourcesPresent, sources, hasKnownCrawler>>
    /\ UNCHANGED <<concurrencyLimit, sourceType, iterVars, tailVars>>

\* Choice: Variable $.sources, IsPresent true -> MapSourcesToProcess;
\* Default NoSourcesToProcess (a Pass state with End true).  GetSourcesToCrawl
\* always stores its result under $.sources, so the default is never taken.
CheckSourcesExist ==
    /\ pc = "CheckSourcesExist"
    /\ pc' = IF sourcesPresent THEN "MapSourcesToProcess" ELSE "NoSourcesToProcess"
    /\ UNCHANGED <<batchVars, iterVars, tailVars>>

\* ---------------------------------------------------- MapSourcesToProcess
CanStartUnbounded(s) ==
    /\ st[s] = "Pending"
    /\ \A t \in sources : t < s => st[t] # "Pending"

\* The Map state starts the items of $.sources in order and keeps at most
\* the configured number of iterators running.
CanStartIteration(s) ==
    /\ st[s] = "Pending"
    /\ \A t \in sources : t < s => st[t] # "Pending"
    /\ Cardinality(Active) < concurrencyLimit

StartIteration(s) ==
    /\ pc = "MapSourcesToProcess"
    /\ ~cancelled
    /\ CanStartIteration(s)
    /\ st' = [st EXCEPT ![s] = "CheckCrawlerStrategy"]
    /\ UNCHANGED <<pc, batchVars, attempts, backoff, error, rows, strategies, activeStrategy,
                   proven, cancelled, tailVars>>

\* An error no Retry or Catch of the iterator handles: the iteration fails,
\* the Map state (which has no Catch) fails, the running iterations are
\* stopped and the execution fails.
FailIteration(s, e) ==
    /\ st' = [t \in SourceIds |->
                 IF t = s THEN "Errored"
                 ELSE IF st[t] \in ActiveStates THEN "Aborted"
                 ELSE st[t]]
    /\ error' = [error EXCEPT ![s] = e]
    /\ backoff' = [t \in SourceIds |-> 0]
    /\ pc' = "ExecutionFailed"

\* Choice: $.hasKnownCrawler = true -> RunKnownCrawler;
\* Default GenerateCrawlerStrategy.
CheckCrawlerStrategy(s) ==
    /\ pc = "MapSourcesToProcess"
    /\ st[s] = "CheckCrawlerStrategy"
    /\ IF hasKnownCrawler[s]
       THEN /\ st' = [st EXCEPT ![s] = "RunKnownCrawler"]
            /\ attempts' = [attempts EXCEPT ![s] = 1]
       ELSE /\ st' = [st EXCEPT ![s] = "GenerateCrawlerStrategy"]
            /\ UNCHANGED attempts
    /\ UNCHANGED <<pc, batchVars, backoff, error, rows, strategies, activeStrategy, proven,
                   cancelled, tailVars>>

GenerateThenRun == "RunGeneratedCrawler"

\* GenerateCrawlerStrategy.Next.
GenerateNext ==
    "SaveCrawlerStrategy"

\* Task with neither Retry nor Catch.
GenerateCrawlerStrategy(s) ==
    /\ pc = "MapSourcesToProcess"
    /\ st[s] = "GenerateCrawlerStrategy"
    /\ \/ /\ st' = [st EXCEPT ![s] = GenerateNext]
          /\ UNCHANGED <<pc, backoff, error>>
       \/ FailIteration(s, "GenerationError")
    /\ UNCHANGED <<batchVars, attempts, rows, strategies, activeStrategy, proven, cancelled,
                   tailVars>>

OverwrittenRows(n) == IF n = 0 THEN 1 ELSE n

\* The strategy is saved as a new row of crawler_strategies; the rows of a
\* source are numbered in the order saved.
SavedRows(n) == n + 1

\* Task with neither Retry nor Catch; on success the strategy is stored
\* and RunGeneratedCrawler is invoked for the first time.
SaveCrawlerStrategy(s) ==
    /\ pc = "MapSourcesToProcess"
    /\ st[s] = "SaveCrawlerStrategy"
    /\ \/ /\ st' = [st EXCEPT ![s] = "RunGeneratedCrawler"]
          /\ strategies' = [strategies EXCEPT ![s] = SavedRows(@)]
          /\ activeStrategy' = [activeStrategy EXCEPT ![s] = strategies'[s]]
          /\ attempts' = [attempts EXCEPT ![s] = 1]
          /\ UNCHANGED <<pc, backoff, error>>
       \/ /\ FailIteration(s, "PersistenceError")
          /\ UNCHANGED <<strategies, activeStrategy, attempts>>
    /\ UNCHANGED <<batchVars, rows, proven, cancelled, tailVars>>

\* Retry[0].ErrorEquals = ["States.ALL"]: the retrier matches every error.
Retriable(e) == TRUE

RetriesLeftOffByOne(s) == attempts[s] - 1 <= MaxAttempts

\* The retrier retries while fewer than MaxAttempts retries were made
\* (attempts counts the first invocation too).
RetriesLeft(s) == attempts[s] - 1 < MaxAttempts

RECURSIVE Pow(_, _)
Pow(b, n) == IF n = 0 THEN 1 ELSE b * Pow(b, n - 1)

\* Wait before the k-th retry: IntervalSeconds * BackoffRate^(k-1).
RetryInterval(k) == IntervalSeconds * Pow(BackoffRate, k - 1)

\* RunKnownCrawler and RunGeneratedCrawler: Next RecordCrawlSuccess;
\* a failure is retried by Retry[0] or, with the retries used up, caught by
\* Catch[0] (States.ALL, ResultPath $.error, Next RecordCrawlFailure).
RunTask(s, errs) ==
    /\ pc = "MapSourcesToProcess"
    /\ st[s] \in RunStates
    /\ st[s] = IF hasKnownCrawler[s] THEN "RunKnownCrawler" ELSE "RunGeneratedCrawler"
    /\ \/ /\ st' = [st EXCEPT ![s] = "RecordCrawlSuccess"]
          /\ proven' = [proven EXCEPT ![s] = @ \/ ~hasKnownCrawler[s]]
          /\ UNCHANGED <<backoff, error>>
       \/ \E e \in errs :
            /\ error' = [error EXCEPT ![s] = e]
            /\ UNCHANGED proven
            /\ IF Retriable(e) /\ RetriesLeft(s)
               THEN /\ st' = [st EXCEPT ![s] = "RetryWait"]
                    /\ backoff' = [backoff EXCEPT ![s] = RetryInterval(attempts[s])]
               ELSE /\ st' = [st EXCEPT ![s] = "RecordCrawlFailure"]
                    /\ UNCHANGED backoff
    /\ UNCHANGED <<pc, batchVars, attempts, rows, strategies, activeStrategy, cancelled, tailVars>>

RunCrawler(s) == RunTask(s, RunErrors)

\* The seconds of the retry wait pass.
WaitElapses(s) ==
    /\ pc = "MapSourcesToProcess"
    /\ st[s] = "RetryWait"
    /\ backoff[s] > 0
    /\ backoff' = [backoff EXCEPT ![s] = 0]
    /\ UNCHANGED <<pc, batchVars, st, attempts, error, rows, strategies, activeStrategy, proven,
                   cancelled, tailVars>>

RetryAtOnce(s) ==
    /\ pc = "MapSourcesToProcess"
    /\ st[s] = "RetryWait"
    /\ st' = [st EXCEPT ![s] =
                 IF hasKnownCrawler[s] THEN "RunKnownCrawler" ELSE "RunGeneratedCrawler"]
    /\ attempts' = [attempts EXCEPT ![s] = @ + 1]
    /\ backoff' = [backoff EXCEPT ![s] = 0]
    /\ UNCHANGED <<pc, batchVars, error, rows, strategies, activeStrategy, proven, cancelled,
                   tailVars>>

RetryWhileRunning(s) ==
    /\ pc = "MapSourcesToProcess"
    /\ st[s] \in RunStates \cup {"RetryWait"}
    /\ st[s] = "RetryWait" => backoff[s] = 0
    /\ attempts[s] <= MaxAttempts
    /\ st' = [st EXCEPT ![s] =
                 IF hasKnownCrawler[s] THEN "RunKnownCrawler" ELSE "RunGeneratedCrawler"]
    /\ attempts' = [attempts EXCEPT ![s] = @ + 1]
    /\ backoff' = [backoff EXCEPT ![s] = 0]
    /\ UNCHANGED <<pc, batchVars, error, rows, strategies, activeStrategy, proven, cancelled,
                   tailVars>>

\* The retry wait is over: the same Task is invoked again.
RetryCrawler(s) ==
    /\ pc = "MapSourcesToProcess"
    /\ st[s] = "RetryWait"
    /\ backoff[s] = 0
    /\ st' = [st EXCEPT ![s] =
                 IF hasKnownCrawler[s] THEN "RunKnownCrawler" ELSE "RunGeneratedCrawler"]
    /\ attempts' = [attempts EXCEPT ![s] = @ + 1]
    /\ backoff' = [backoff EXCEPT ![s] = 0]
    /\ UNCHANGED <<pc, batchVars, error, rows, strategies, activeStrategy, proven, cancelled,
                   tailVars>>

\* Both record states have End true: the iteration ends after one record.
RecordTwice(state) ==
    IF state = "RecordCrawlFailure" THEN "RecordCrawlSuccess" ELSE "Succeeded"

RecordEnd(state) ==
    IF state = "RecordCrawlSuccess" THEN "Succeeded" ELSE "Failed"

\* RecordCrawlSuccess and RecordCrawlFailure: Task with neither Retry nor
\* Catch, End true.  The invocation writes one crawl_results row.
RecordCrawlResult(s) ==
    /\ pc = "MapSourcesToProcess"
    /\ st[s] \in RecordStates
    /\ \/ /\ st' = [st EXCEPT ![s] = RecordEnd(st[s])]
          /\ rows' = [rows EXCEPT ![s] = @ + 1]
          /\ UNCHANGED <<pc, backoff, error>>
       \/ /\ FailIteration(s, "PersistenceError")
          /\ UNCHANGED rows
    /\ UNCHANGED <<batchVars, attempts, strategies, activeStrategy, proven, cancelled, tailVars>>

\* Cancellation of the batch: the sources not yet started are skipped, the
\* running iterations run to their end.
CancelKeepsPending ==
    /\ pc = "MapSourcesToProcess"
    /\ ~cancelled
    /\ cancelled' = TRUE
    /\ UNCHANGED <<pc, batchVars, st, attempts, backoff, error, rows, strategies, activeStrategy,
                   proven, tailVars>>

Cancel ==
    /\ pc = "MapSourcesToProcess"
    /\ ~cancelled
    /\ cancelled' = TRUE
    /\ st' = [s \in SourceIds |->
                 IF s \in sources /\ st[s] = "Pending" THEN "Skipped" ELSE st[s]]
    /\ UNCHANGED <<pc, batchVars, attempts, backoff, error, rows, strategies, activeStrategy,
                   proven, tailVars>>

AllIterationsStarted == \A s \in sources : st[s] # "Pending"

\* The Map state ends when every iteration has ended; Next ProcessCatalog.
AllIterationsEnded == \A s \in sources : st[s] \in TerminalStates

MapSourcesToProcessDone ==
    /\ pc = "MapSourcesToProcess"
    /\ AllIterationsEnded
    /\ pc' = "ProcessCatalog"
    /\ UNCHANGED <<batchVars, iterVars, tailVars>>

\* ------------------------------------------------------------ finalization
Count(state) == Cardinality({s \in sources : st[s] = state})

\* The summary of a batch, from the per-source outcomes.
BatchSummary ==
    [processed |-> Cardinality(sources),
     succeeded |-> Count("Succeeded"),
     failed    |-> Count("Failed"),
     skipped   |-> Count("Skipped")]

\* Task with neither Retry nor Catch; Parameters crawlResults = $.crawlResults,
\* the outputs of the iterations.  Next NotifyCrawlComplete.
ProcessCatalog ==
    /\ pc = "ProcessCatalog"
    /\ mergeCount' = mergeCount + 1
    /\ mergeInput' = {s \in sources : st[s] \in {"Succeeded", "Failed"}}
    /\ \/ pc' = "NotifyCrawlComplete"
       \/ ExecutionFails
    /\ UNCHANGED <<batchVars, iterVars, notifyCount, summary, storeVars>>

\* Task with neither Retry nor Catch; End true.
NotifyCrawlComplete ==
    /\ pc = "NotifyCrawlComplete"
    /\ \/ /\ pc' = "Done"
          /\ notifyCount' = notifyCount + 1
          /\ summary' = BatchSummary
       \/ /\ ExecutionFails
          /\ UNCHANGED <<notifyCount, summary>>
    /\ UNCHANGED <<batchVars, iterVars, mergeCount, mergeInput, storeVars>>

Next ==
    \/ InitializeSources
    \/ GetSourcesToCrawl
    \/ CheckSourcesExist
    \/ \E s \in sources : StartIteration(s)
    \/ \E s \in sources : CheckCrawlerStrategy(s)
    \/ \E s \in sources : GenerateCrawlerStrategy(s)
    \/ \E s \in sources : SaveCrawlerStrategy(s)
    \/ \E s \in sources : RunCrawler(s)
    \/ \E s \in sources : WaitElapses(s)
    \/ \E s \in sources : RetryCrawler(s)
    \/ \E s \in sources : RecordCrawlResult(s)
    \/ Cancel
    \/ MapSourcesToProcessDone
    \/ ProcessCatalog
    \/ NotifyCrawlComplete

Spec == Init /\ [][Next]_vars

\* ---------------------------------------------------------- later crawls
\* Largest number of executions of the workflow in the model.
MaxCrawls == 2

\* A later execution of the workflow: the execution state starts afresh, the
\* stores (crawl results, strategies, source flags, catalog) are kept.
NextCrawl ==
    /\ pc = "Done"
    /\ crawls < MaxCrawls
    /\ crawls' = crawls + 1
    /\ pc' = "InitializeSources"
    /\ sourcesPresent' = FALSE
    /\ sources' = {}
    /\ hasKnownCrawler' = [s \in SourceIds |-> FALSE]
    /\ st' = [s \in SourceIds |-> "Pending"]
    /\ attempts' = [s \in SourceIds |-> 0]
    /\ backoff' = [s \in SourceIds |-> 0]
    /\ error' = [s \in SourceIds |-> NoError]
    /\ cancelled' = FALSE
    /\ mergeCount' = 0
    /\ mergeInput' = {}
    /\ notifyCount' = 0
    /\ summary' = NoSummary
    /\ UNCHANGED <<concurrencyLimit, sourceType, rows, strategies, activeStrategy, proven,
                   catVars, appVars>>

InitRecrawl ==
    /\ Init
    /\ concurrencyLimit = MaxConcurrency

NextRecrawl ==
    \/ InitializeSources
    \/ GetSourcesToCrawl
    \/ CheckSourcesExist
    \/ \E s \in sources : StartIteration(s)
    \/ \E s \in sources : CheckCrawlerStrategy(s)
    \/ \E s \in sources : GenerateCrawlerStrategy(s)
    \/ \E s \in sources : SaveCrawlerStrategy(s)
    \/ \E s \in sources : RunCrawler(s)
    \/ \E s \in sources : WaitElapses(s)
    \/ \E s \in sources : RetryCrawler(s)
    \/ \E s \in sources : RecordCrawlResult(s)
    \/ Cancel
    \/ MapSourcesToProcessDone
    \/ ProcessCatalog
    \/ NotifyCrawlComplete
    \/ NextCrawl

SpecRecrawl == InitRecrawl /\ [][NextRecrawl]_vars

\* ------------------------------------------------------------ source types
\* The source list holds sources of every type.
InitResolve ==
    /\ ExecutionInit
    /\ uniqueEmail = FALSE
    /\ concurrencyLimit = MaxConcurrency
    /\ sourceType \in [SourceIds -> SourceTypes]

SpecResolve == InitResolve /\ [][Next]_vars

\* -------------------------------------------------------------- timeouts
\* A run that does not return within the crawler timeout is terminated and
\* raises TimeoutExceeded; the Run task sees it as one more error.
TimedRunErrors == RunErrors \cup {"TimeoutExceeded"}

RunCrawlerTimed(s) == RunTask(s, TimedRunErrors)

NextTimeout ==
    \/ InitializeSources
    \/ GetSourcesToCrawl
    \/ CheckSourcesExist
    \/ \E s \in sources : StartIteration(s)
    \/ \E s \in sources : CheckCrawlerStrategy(s)
    \/ \E s \in sources : GenerateCrawlerStrategy(s)
    \/ \E s \in sources : SaveCrawlerStrategy(s)
    \/ \E s \in sources : RunCrawlerTimed(s)
    \/ \E s \in sources : WaitElapses(s)
    \/ \E s \in sources : RetryCrawler(s)
    \/ \E s \in sources : RecordCrawlResult(s)
    \/ Cancel
    \/ MapSourcesToProcessDone
    \/ ProcessCatalog
    \/ NotifyCrawlComplete

SpecTimeout == Init /\ [][NextTimeout]_vars

\* ============================================================ the catalog
\* The catalog processor (ProcessCatalog's function) merges the candidates
\* the crawls of a batch discovered into the tool catalog.

\* Largest number of candidates of one batch, and of merges, in the model.
MaxCands == 2
MaxMerges == 3

TrackingParams == {"utm_source"}

\* Lower-casing of the scheme and host names the model uses.
Lower(w) ==
    CASE w = "HTTPS" -> "https"
      [] w = "Tools.Dev" -> "tools.dev"
      [] OTHER -> w

\* Scheme and host lower-cased, the trailing slash stripped, the tracking
\* query parameters removed.
NormalizeUrl(u) ==
    [scheme |-> Lower(u.scheme), host |-> Lower(u.host), path |-> u.path,
     slash |-> FALSE, query |-> u.query \ TrackingParams]

\* URLs the crawls discover: two spellings of one tool's URL, and another
\* tool's URL.
RawUrls ==
    {[scheme |-> "https", host |-> "tools.dev", path |-> "/a",
      slash |-> FALSE, query |-> {}],
     [scheme |-> "HTTPS", host |-> "Tools.Dev", path |-> "/a",
      slash |-> TRUE, query |-> {"utm_source"}],
     [scheme |-> "https", host |-> "tools.dev", path |-> "/b",
      slash |-> FALSE, query |-> {}]}

Names == {"alpha", "beta"}

\* A candidate: the source that discovered it, its URL as found, and its
\* mutable fields (name, description, metadata) as one value.
Candidates == [src : SourceIds, url : RawUrls, name : Names]

SameUrlAsFound(e, c) == e.url = c.url

\* The catalog entry e is the tool of candidate c.
SameTool(e, c) == e.url = NormalizeUrl(c.url)

UpsertReplacing(cat, c, t) ==
    {e \in cat : ~SameTool(e, c)}
        \cup {[id |-> Cardinality({e \in cat : ~SameTool(e, c)}) + 1,
                url |-> NormalizeUrl(c.url), name |-> c.name,
                firstDiscovered |-> t, lastUpdated |-> t]}

\* Insert the candidate as a new Tool, or update the mutable fields of the
\* entry with its normalized URL.
Upsert(cat, c, t) ==
    IF \E e \in cat : SameTool(e, c)
    THEN {IF SameTool(e, c)
          THEN [e EXCEPT !.name = c.name, !.lastUpdated = t]
          ELSE e : e \in cat}
    ELSE cat \cup {[id |-> Cardinality(cat) + 1, url |-> NormalizeUrl(c.url),
                    name |-> c.name, firstDiscovered |-> t,
                    lastUpdated |-> t]}

\* The candidates are merged in processing order: the later of two
\* candidates of one URL wins.
RECURSIVE MergeCandidates(_, _, _)
MergeCandidates(cat, cands, t) ==
    IF cands = <<>>
    THEN cat
    ELSE MergeCandidates(Upsert(cat, Head(cands), t), Tail(cands), t)

Urls(cat) == {e.url : e \in cat}

CandidateUrls(cands) == {NormalizeUrl(cands[i].url) : i \in DOMAIN cands}

CountEveryKnown(cat, cands, t) ==
    [newCount |-> Cardinality(CandidateUrls(cands) \ Urls(cat)),
     updatedCount |-> Cardinality(CandidateUrls(cands) \cap Urls(cat))]

CountPerCandidate(cat, cands, t) ==
    [newCount |->
         Cardinality({i \in DOMAIN cands :
                         NormalizeUrl(cands[i].url) \notin Urls(cat)}),
     updatedCount |->
         Cardinality({i \in DOMAIN cands :
                         NormalizeUrl(cands[i].url) \in Urls(cat)})]

\* MergeSummary: the net changes of the catalog, one per URL.
MergeCounts(cat, cands, t) ==
    LET after == MergeCandidates(cat, cands, t)
    IN  [newCount |-> Cardinality(CandidateUrls(cands) \ Urls(cat)),
         updatedCount |->
             Cardinality({e \in cat : \E f \in after :
                             f.url = e.url /\ f.name # e.name})]

CandidatesOf(s, cands) == SelectSeq(cands, LAMBDA c : c.src = s)

CountAsFound(cat, cands) ==
    [success |-> TRUE, toolsDiscovered |-> Len(cands),
     newTools |-> Cardinality({cands[i].url : i \in DOMAIN cands} \ Urls(cat)),
     updatedTools |->
         Cardinality({cands[i].url : i \in DOMAIN cands} \cap Urls(cat))]

\* The counts of a source's CrawlResult: candidates discovered, and those
\* of them new to, and already in, the catalog.
CrawlCounts(cat, cands) ==
    [success |-> TRUE, toolsDiscovered |-> Len(cands),
     newTools |-> Cardinality(CandidateUrls(cands) \ Urls(cat)),
     updatedTools |-> Cardinality(CandidateUrls(cands) \cap Urls(cat))]

workflowVars == <<pc, batchVars, iterVars, mergeCount, mergeInput, notifyCount,
                  summary, crawls>>

\* The crawls of a batch start.
StartBatch ==
    /\ mpc \in {"idle", "merged", "remerged"}
    /\ now < MaxMerges
    /\ batch' = <<>>
    /\ crawlResult' = [s \in SourceIds |-> CrawlCounts(catalog, <<>>)]
    /\ mpc' = "crawling"
    /\ UNCHANGED <<catalog, now, mergeSummary, workflowVars, appVars>>

\* A crawl returns a candidate.  The results of the Map state are in the
\* order of its items, so the candidates of a batch are in source order.
Discover(c) ==
    /\ mpc = "crawling"
    /\ Len(batch) < MaxCands
    /\ \A i \in DOMAIN batch : batch[i].src <= c.src
    /\ batch' = Append(batch, c)
    /\ crawlResult' =
           [s \in SourceIds |-> CrawlCounts(catalog, CandidatesOf(s, batch'))]
    /\ UNCHANGED <<catalog, now, mergeSummary, mpc, workflowVars, appVars>>

MergeBatch ==
    /\ now' = now + 1
    /\ catalog' = MergeCandidates(catalog, batch, now')
    /\ mergeSummary' = MergeCounts(catalog, batch, now')
    /\ UNCHANGED <<batch, crawlResult, workflowVars, appVars>>

MergeCatalog ==
    /\ mpc = "crawling"
    /\ mpc' = "merged"
    /\ MergeBatch

\* The identical candidate set is merged once more.
Remerge ==
    /\ mpc = "merged"
    /\ now < MaxMerges
    /\ mpc' = "remerged"
    /\ MergeBatch

InitMerge ==
    /\ Init
    /\ concurrencyLimit = MaxConcurrency

NextMerge ==
    \/ StartBatch
    \/ \E c \in Candidates : Discover(c)
    \/ MergeCatalog
    \/ Remerge

SpecMerge == InitMerge /\ [][NextMerge]_vars

\* ------------------------------------------------------- backend: register
MaxUsers == 3

crawlerVars == <<workflowVars, catVars>>
registerFrame == <<crawlerVars, authVars, watchVars>>

\* User.findOne({ email }): the documents with that email.
UsersOf(e) == {u \in users : u.email = e}

InFlight == {r \in RequestIds : reqPc[r] \notin {"idle", "done"}}

\* POST /auth/register arrives; the handler reads req.body and starts the
\* lookup.
Receive(r, e) ==
    /\ reqPc[r] = "idle"
    /\ Cardinality(users) + Cardinality(InFlight) < MaxUsers
    /\ reqPc' = [reqPc EXCEPT ![r] = "findOne"]
    /\ reqEmail' = [reqEmail EXCEPT ![r] = e]
    /\ UNCHANGED <<users, uniqueEmail, reqStatus, registerFrame>>

\* await User.findOne resolves: 400 if a user has the email, else the
\* handler goes on to hash the password.
FindOne(r) ==
    /\ reqPc[r] = "findOne"
    /\ IF UsersOf(reqEmail[r]) # {}
       THEN /\ reqStatus' = [reqStatus EXCEPT ![r] = 400]
            /\ reqPc' = [reqPc EXCEPT ![r] = "done"]
       ELSE /\ reqPc' = [reqPc EXCEPT ![r] = "hashPassword"]
            /\ UNCHANGED reqStatus
    /\ UNCHANGED <<users, uniqueEmail, reqEmail, registerFrame>>

\* await hashPassword resolves; the handler builds the document and starts
\* the save.
HashPassword(r) ==
    /\ reqPc[r] = "hashPassword"
    /\ reqPc' = [reqPc EXCEPT ![r] = "save"]
    /\ UNCHANGED <<users, uniqueEmail, reqEmail, reqStatus, registerFrame>>

\* await user.save() resolves or rejects.  With a unique index on email the
\* store rejects a second document with the email and the catch answers
\* 500; without one the document is inserted.  On success the handler
\* answers 201.
Save(r) ==
    /\ reqPc[r] = "save"
    /\ IF uniqueEmail /\ UsersOf(reqEmail[r]) # {}
       THEN /\ reqStatus' = [reqStatus EXCEPT ![r] = 500]
            /\ UNCHANGED users
       ELSE /\ users' = users \cup {[id |-> Cardinality(users) + 1,
                                     email |-> reqEmail[r]]}
            /\ reqStatus' = [reqStatus EXCEPT ![r] = 201]
    /\ reqPc' = [reqPc EXCEPT ![r] = "done"]
    /\ UNCHANGED <<uniqueEmail, reqEmail, registerFrame>>

\* The response is sent; the next request can arrive.
Respond(r) ==
    /\ reqPc[r] = "done"
    /\ reqPc' = [reqPc EXCEPT ![r] = "idle"]
    /\ reqEmail' = [reqEmail EXCEPT ![r] = NoEmail]
    /\ reqStatus' = [reqStatus EXCEPT ![r] = 0]
    /\ UNCHANGED <<users, uniqueEmail, registerFrame>>

\* The User model is not part of the sources: the collection may or may
\* not carry a unique index on email.
InitRegister ==
    /\ ExecutionInit
    /\ concurrencyLimit = MaxConcurrency
    /\ sourceType = [s \in SourceIds |-> "github_awesome_list"]
    /\ uniqueEmail \in BOOLEAN

NextRegister ==
    \/ \E r \in RequestIds, e \in Emails : Receive(r, e)
    \/ \E r \in RequestIds : FindOne(r)
    \/ \E r \in RequestIds : HashPassword(r)
    \/ \E r \in RequestIds : Save(r)
    \/ \E r \in RequestIds : Respond(r)

SpecRegister == InitRegister /\ [][NextRegister]_vars

\* ------------------------------------------------- frontend: authService
authFrame == <<crawlerVars, registerVars, watchVars>>

loginFlagOnly(a) == [a EXCEPT !.isAuthenticated = TRUE]

\* LocalAuthService.login: no await inside, so the body is one step.
login(a) == [a EXCEPT !.isAuthenticated = TRUE, !.user = LocalUser]

\* LocalAuthService.logout
logout(a) == [a EXCEPT !.isAuthenticated = FALSE, !.user = NoUser]

\* authService.login() called on the exported instance.
ServiceLogin ==
    /\ authService' = login(authService)
    /\ lastCall' = "login"
    /\ UNCHANGED <<authContext, providerMounted, pending, authFrame>>

\* authService.logout() called on the exported instance.
ServiceLogout ==
    /\ authService' = logout(authService)
    /\ lastCall' = "logout"
    /\ UNCHANGED <<authContext, providerMounted, pending, authFrame>>

\* The effect of AuthProvider copies the state of the service.
ProviderEffect ==
    /\ ~providerMounted
    /\ providerMounted' = TRUE
    /\ authContext' = [isAuthenticated |-> authService.isAuthenticated,
                       user |-> authService.user]
    /\ UNCHANGED <<authService, pending, lastCall, authFrame>>

\* login of the context: authService.login() runs at once, the rest of
\* the function waits for the await.
ContextLogin ==
    /\ Len(pending) < MaxPending
    /\ authService' = login(authService)
    /\ lastCall' = "login"
    /\ pending' = Append(pending, "login")
    /\ UNCHANGED <<authContext, providerMounted, authFrame>>

\* logout of the context.
ContextLogout ==
    /\ Len(pending) < MaxPending
    /\ authService' = logout(authService)
    /\ lastCall' = "logout"
    /\ pending' = Append(pending, "logout")
    /\ UNCHANGED <<authContext, providerMounted, authFrame>>

\* The oldest await resumes: login sets isAuthenticated true and user to
\* what the service holds by then, logout sets false and null.
Resume ==
    /\ providerMounted
    /\ pending # <<>>
    /\ authContext' =
           IF Head(pending) = "login"
           THEN [isAuthenticated |-> TRUE, user |-> authService.user]
           ELSE [isAuthenticated |-> FALSE, user |-> NoUser]
    /\ pending' = Tail(pending)
    /\ UNCHANGED <<authService, providerMounted, lastCall, authFrame>>

NextAuth ==
    \/ ServiceLogin
    \/ ServiceLogout
    \/ ProviderEffect
    \/ ContextLogin
    \/ ContextLogout
    \/ Resume

InitAuth ==
    /\ Init
    /\ concurrencyLimit = MaxConcurrency

SpecAuth == InitAuth /\ [][NextAuth]_vars

\* ----------------------------------------------------- frontend: MCPWatch
watchFrame == <<crawlerVars, registerVars, authVars>>

NoCleanup(ts, h) == ts

\* The cleanup of the effect: clearInterval of the timer the effect set.
Cleanup(ts, h) == IF h # 0 THEN ts \ {h} ELSE ts

\* setInterval returns the id of a timer that is not set.
NewTimer(ts) == CHOOSE t \in 1..(Cardinality(ts) + 1) : t \notin ts

\* The cleanup of the previous effect, then the effect with the state of
\* the committed render: a timer is set if watching.
RunEffectWith(watching) ==
    LET cleared == Cleanup(timers, watchInterval)
    IN  IF watching
        THEN /\ watchInterval' = NewTimer(cleared)
             /\ timers' = cleared \cup {watchInterval'}
        ELSE /\ watchInterval' = 0
             /\ timers' = cleared

\* A click on the button: toggleWatch, the render and, the click being a
\* discrete event, the effect in the same task.
ToggleWatch ==
    /\ mounted
    /\ isWatching \/ watchNo < MaxWatches
    /\ isWatching' = ~isWatching
    /\ IF ~isWatching
       THEN /\ events' = <<>>
            /\ watchNo' = watchNo + 1
       ELSE UNCHANGED <<events, watchNo>>
    /\ RunEffectWith(isWatching')
    /\ effectPending' = FALSE
    /\ UNCHANGED <<mounted, config, watchFrame>>

\* onConfigChange({ watchInterval }): MCPFeatures renders MCPWatch with
\* the new interval; the effect of that render runs later.
ChangeInterval(i) ==
    /\ i # config.watchInterval
    /\ config' = [config EXCEPT !.watchInterval = i]
    /\ effectPending' = mounted
    /\ UNCHANGED <<mounted, isWatching, events, timers, watchInterval,
                   watchNo, watchFrame>>

\* onConfigChange({ autoRefresh }): no dependency of the effect changes.
ChangeAutoRefresh ==
    /\ config' = [config EXCEPT !.autoRefresh = ~config.autoRefresh]
    /\ UNCHANGED <<mounted, isWatching, events, timers, watchInterval,
                   watchNo, effectPending, watchFrame>>

\* The effect of a render with a changed interval runs.
RunEffect ==
    /\ effectPending
    /\ effectPending' = FALSE
    /\ RunEffectWith(isWatching)
    /\ UNCHANGED <<mounted, isWatching, events, config, watchNo,
                   watchFrame>>

\* The callback of a timer that is set runs.
Tick(t) ==
    /\ t \in timers
    /\ Len(events) < MaxEvents
    /\ events' = Append(events, watchNo)
    /\ UNCHANGED <<mounted, isWatching, timers, watchInterval, config,
                   watchNo, effectPending, watchFrame>>

\* MCPFeatures shows another tab: the cleanup runs, the state is dropped.
Unmount ==
    /\ mounted
    /\ mounted' = FALSE
    /\ timers' = Cleanup(timers, watchInterval)
    /\ watchInterval' = 0
    /\ isWatching' = FALSE
    /\ events' = <<>>
    /\ effectPending' = FALSE
    /\ UNCHANGED <<config, watchNo, watchFrame>>

\* MCPFeatures shows the watch tab: first render and effect.
Mount ==
    /\ ~mounted
    /\ mounted' = TRUE
    /\ UNCHANGED <<isWatching, events, timers, watchInterval, config,
                   watchNo, effectPending, watchFrame>>

InitWatch ==
    /\ Init
    /\ concurrencyLimit = MaxConcurrency

NextWatch ==
    \/ ToggleWatch
    \/ \E i \in Intervals : ChangeInterval(i)
    \/ ChangeAutoRefresh
    \/ RunEffect
    \/ \E t \in timers : Tick(t)
    \/ Unmount
    \/ Mount

SpecWatch == InitWatch /\ [][NextWatch]_vars

\* ================================================================== claims

Finished == pc \in {"Done", "ExecutionFailed"}

\* C1: the catalog merge (ProcessCatalog) never starts while a source of the
\* batch is in a non-terminal state: when the merge starts or has run, every
\* source is Succeeded, Failed or Skipped and no iteration is in flight.
C1_MergeAfterAllTerminal ==
    (pc = "ProcessCatalog" \/ mergeCount > 0) =>
        /\ \A s \in sources : st[s] \in TerminalStates
        /\ Active = {}

\* A merge ran for a batch of two sources, one succeeded and one failed.
C1_Witness ==
    /\ mergeCount = 1
    /\ \E s, t \in sources : st[s] = "Succeeded" /\ st[t] = "Failed"

\* C2: for every batch with at least one source the catalog merge is invoked
\* exactly once, also when sources of the batch failed: a finished execution
\* of a non-empty batch has invoked ProcessCatalog once.
C2_MergeExactlyOnce ==
    (Finished /\ sources # {}) => mergeCount = 1

\* C3: a failure of one source at any per-source stage never aborts the
\* processing of its siblings: no source is stopped, or left unstarted,
\* because another source's iteration failed.
C3_SiblingIsolation ==
    \A s, t \in sources :
        (s # t /\ st[s] = "Errored") => st[t] \notin {"Aborted", "Pending"}

\* C4: at every instant the number of sources whose iteration (and so whose
\* strategy execution) is in flight is at most the concurrency limit, which
\* is at most the workflow's MaxConcurrency.
C4_ConcurrencyBound ==
    /\ Cardinality(Active) <= concurrencyLimit
    /\ Cardinality({s \in sources : st[s] \in RunStates}) <= concurrencyLimit
    /\ concurrencyLimit <= MaxConcurrency

\* The limit is reached with a crawler running while a source waits its turn.
C4_Witness ==
    /\ Cardinality(Active) = concurrencyLimit
    /\ \E s \in sources : st[s] \in RunStates
    /\ \E s \in sources : st[s] = "Pending"

\* C5: a source whose crawler fails on every attempt is attempted
\* 1 + MaxAttempts times and then marked Failed with its error recorded: no
\* source is attempted more often, none waits for a retry after the last
\* attempt, and none is on the failure path or Failed after fewer attempts.
C5_RetryBound ==
    \A s \in sources :
        /\ attempts[s] <= 1 + MaxAttempts
        /\ st[s] = "RetryWait" => attempts[s] <= MaxAttempts
        /\ st[s] \in {"RecordCrawlFailure", "Failed"} =>
               attempts[s] = 1 + MaxAttempts /\ error[s] \in RunErrors
        /\ st[s] = "Failed" => rows[s] = 1

\* A source failed with TransientFetchError after three attempts.
C5_Witness ==
    \E s \in sources :
        /\ st[s] = "Failed"
        /\ attempts[s] = 3
        /\ error[s] = "TransientFetchError"

\* C6: a crawler run that failed with the non-transient
\* CapabilityViolation is not attempted again: the source goes directly to
\* the failure path.
C6_NonTransientNotRetried ==
    \A s \in sources :
        error[s] = "CapabilityViolation" =>
            st[s] \in {"RecordCrawlFailure", "Failed", "Errored", "Aborted"}

\* C7: a failure of the code-generation step is retried and, with the
\* retries used up, the source is marked Failed with a failed CrawlResult:
\* a finished execution has a Failed source with one row for every source
\* whose generation failed.
C7_GenerationFailureRecorded ==
    \A s \in sources :
        (Finished /\ error[s] = "GenerationError") =>
            st[s] = "Failed" /\ rows[s] = 1

\* C8: with an empty set of due sources no downstream component is invoked:
\* no catalog merge and no notification happen.
C8_EmptyBatchNoOp ==
    (sourcesPresent /\ sources = {}) =>
        /\ mergeCount = 0
        /\ notifyCount = 0

SummaryEmitted == summary.processed >= 0

C11_DedupInvariant ==
    \A e, f \in catalog :
        NormalizeUrl(e.url) = NormalizeUrl(f.url) => e = f

\* Two spellings of one URL were merged, in different merges, into one entry.
C11_Witness ==
    /\ now >= 2
    /\ Cardinality(catalog) = 1
    /\ \E i \in DOMAIN batch : batch[i].url # NormalizeUrl(batch[i].url)
    /\ \E e \in catalog : e.firstDiscovered < e.lastUpdated

C13_RecrawlUnchanged ==
    [][(mpc = "crawling" /\ mpc' = "merged") =>
          /\ \A s \in SourceIds :
               LET cs == CandidatesOf(s, batch)
                   n == Len(cs)
               IN  (/\ n > 0
                    /\ Cardinality(CandidateUrls(cs)) = n
                    /\ CandidateUrls(cs) \subseteq Urls(catalog))
                   => crawlResult[s] =
                          [success |-> TRUE, toolsDiscovered |-> n,
                           newTools |-> 0, updatedTools |-> n]
          /\ CandidateUrls(batch) \subseteq Urls(catalog)
                => Cardinality(catalog') = Cardinality(catalog)]_vars

\* Source 1 returned, for the second time, the two tools the catalog holds,
\* one of them under another spelling of its URL.
C13_Witness ==
    /\ mpc = "merged"
    /\ now = 2
    /\ Len(batch) = 2
    /\ \A i \in DOMAIN batch : batch[i].src = 1
    /\ \E i \in DOMAIN batch : batch[i].url # NormalizeUrl(batch[i].url)
    /\ crawlResult[1] = [success |-> TRUE, toolsDiscovered |-> 2,
                         newTools |-> 0, updatedTools |-> 2]
    /\ Cardinality(catalog) = 2
    /\ \A e \in catalog : e.firstDiscovered = 1 /\ e.lastUpdated = 2

\* C14: when two distinct sources of one batch each discover a candidate of
\* the same normalized URL, the catalog holds exactly one Tool of that URL
\* after the merge, and newCount is the number of entries the catalog
\* gained: 1 for that URL, not 2.
C14_CrossSourceDuplicates ==
    [][(mpc = "crawling" /\ mpc' = "merged") =>
          /\ \A i, j \in DOMAIN batch :
               (/\ batch[i].src # batch[j].src
                /\ NormalizeUrl(batch[i].url) = NormalizeUrl(batch[j].url))
               => Cardinality({e \in catalog' :
                                  e.url = NormalizeUrl(batch[i].url)}) = 1
          /\ mergeSummary'.newCount =
                Cardinality(catalog') - Cardinality(catalog)]_vars

\* Sources 1 and 2 found the same new tool under two spellings of its URL:
\* one entry, newCount 1, the later candidate's fields.
C14_Witness ==
    /\ mpc = "merged"
    /\ now = 1
    /\ Len(batch) = 2
    /\ batch[1].src = 1 /\ batch[2].src = 2
    /\ batch[1].url # batch[2].url
    /\ batch[1].name # batch[2].name
    /\ Cardinality(catalog) = 1
    /\ \A e \in catalog : e.name = batch[2].name
    /\ mergeSummary = [newCount |-> 1, updatedCount |-> 0]

\* C15: a source whose run was terminated at the timeout (TimeoutExceeded)
\* still reaches a terminal state: when the execution has ended, the source
\* is Succeeded, Failed or Skipped.
C15_TimedOutSourceEnds ==
    Finished =>
        \A s \in sources :
            error[s] = "TimeoutExceeded" => st[s] \in TerminalStates

\* C16: a generated strategy whose run raised CapabilityViolation is not run
\* again: its source neither waits for a retry nor is back in
\* RunGeneratedCrawler.
C16_ViolatingStrategyNotRerun ==
    \A s \in sources :
        (~hasKnownCrawler[s] /\ error[s] = "CapabilityViolation")
            => st[s] \notin {"RetryWait", "RunGeneratedCrawler"}

\* C17: a generated strategy is saved before it is executed: a source in
\* RunGeneratedCrawler, or with a run of a generated strategy behind it, has
\* a saved strategy, and a source whose save failed was never run.
C17_SavedBeforeExecuted ==
    \A s \in sources :
        /\ (st[s] = "RunGeneratedCrawler" \/ proven[s]
               \/ (~hasKnownCrawler[s] /\ attempts[s] >= 1))
           => strategies[s] >= 1
        /\ strategies[s] = 0 /\ ~hasKnownCrawler[s] => attempts[s] = 0

\* One source runs its saved strategy for the first time; the save of
\* another source's strategy failed and that source was never run.
C17_Witness ==
    \E s, u \in sources :
        /\ error[s] = "PersistenceError"
        /\ ~hasKnownCrawler[s]
        /\ strategies[s] = 0
        /\ attempts[s] = 0
        /\ ~hasKnownCrawler[u]
        /\ strategies[u] = 1
        /\ attempts[u] >= 1

\* C18: once a generated strategy of a source has completed a run, a later
\* crawl of the source does not generate (or save) a strategy again.
C18_StrategyReused ==
    \A s \in sources :
        proven[s] =>
            st[s] \notin {"GenerateCrawlerStrategy", "SaveCrawlerStrategy"}

C20_MergeFailureKeepsResults ==
    [][/\ (pc = "ProcessCatalog" /\ pc' # "NotifyCrawlComplete") =>
            /\ pc' = "ExecutionFailed"
            /\ rows' = rows
            /\ st' = st
            /\ error' = error
            /\ notifyCount' = 0
            /\ summary' = NoSummary
       /\ pc = "ExecutionFailed" => (pc' = pc /\ rows' = rows)]_vars

\* The merge of a batch with a recorded success and a recorded failure
\* failed: the execution has failed and both rows are there.
C20_Witness ==
    /\ pc = "ExecutionFailed"
    /\ mergeCount = 1
    /\ notifyCount = 0
    /\ \E s, u \in sources :
         /\ st[s] = "Succeeded" /\ rows[s] = 1
         /\ st[u] = "Failed" /\ rows[u] = 1

\* C21: a failure of the notification is not fatal: after a successful merge
\* the execution ends Done with its summary, whatever NotifyCrawlComplete
\* does.
C21_NotifyFailureNotFatal ==
    [][pc = "NotifyCrawlComplete" =>
          /\ pc' = "Done"
          /\ summary' = BatchSummary]_vars

\* C22: no fault of a source (generation, execution, result recording) is
\* raised to the caller: when the execution has failed, no iteration of the
\* Map state is the one that failed or was aborted.
C22_NoSourceFaultRaised ==
    pc = "ExecutionFailed" =>
        \A s \in sources : st[s] \notin {"Errored", "Aborted"}

\* C23: only a source of a type with a built-in crawler is routed to the
\* built-in execution (RunKnownCrawler); a source of type website, or of
\* any other type without one, is not.
C23_BuiltInOnlyForRegisteredType ==
    \A s \in sources :
        st[s] = "RunKnownCrawler" => sourceType[s] \in BuiltInTypes

\* C24: the attempts of a source are strictly sequential: the first starts
\* when the iterator enters its Run task, and attempt k+1 starts only from
\* the retry wait that followed the failure of attempt k, never while an
\* attempt of the source is in flight.
C24_RetriesSequential ==
    [][\A s \in sources :
          attempts'[s] # attempts[s] =>
              /\ attempts'[s] = attempts[s] + 1
              /\ st'[s] \in RunStates
              /\ \/ attempts[s] = 0 /\ st[s] \notin RunStates
                 \/ st[s] = "RetryWait" /\ error[s] # NoError]_vars

\* The third attempt of a source is in flight while another source runs
\* its first.
C24_Witness ==
    \E s, u \in sources :
        /\ st[s] \in RunStates /\ attempts[s] = 3
        /\ st[u] \in RunStates /\ attempts[u] = 1

\* C26: the wait before the k-th retry of a source is IntervalSeconds *
\* 2^(k-1) seconds, 2 before the first retry and 4 before the second, and a
\* retry starts only when no second of its wait is left.
C26_BackoffDoubles ==
    [][\A s \in sources :
          /\ (st'[s] = "RetryWait" /\ st[s] # "RetryWait") =>
                /\ backoff'[s] = IntervalSeconds * Pow(2, attempts[s] - 1)
                /\ attempts[s] = 1 => backoff'[s] = 2
                /\ attempts[s] = 2 => backoff'[s] = 4
          /\ (st[s] = "RetryWait" /\ st'[s] \in RunStates) => backoff[s] = 0
          /\ (st[s] = "RetryWait" /\ st'[s] = "RetryWait") =>
                backoff'[s] <= backoff[s]]_vars

\* A source waited 2 s and then 4 s and runs its third attempt.
C26_Witness ==
    \E s \in sources :
        /\ st[s] \in RunStates
        /\ attempts[s] = 3
        /\ backoff[s] = 0

\* C25: a merge keeps every entry of the catalog with its identity, URL and
\* firstDiscovered; an entry a candidate of the batch matches gets the
\* fields of the last such candidate and lastUpdated = now, every other
\* entry is left as it is; an entry the merge inserts has firstDiscovered =
\* now, so firstDiscovered is always the time of the first insertion.
C25_UpdateKeepsFirstDiscovered ==
    [][now' # now =>
          /\ \A e \in catalog :
               \E f \in catalog' :
                   /\ f.id = e.id
                   /\ f.url = e.url
                   /\ f.firstDiscovered = e.firstDiscovered
                   /\ IF \E i \in DOMAIN batch : SameTool(e, batch[i])
                      THEN LET last == CHOOSE i \in DOMAIN batch :
                                          /\ SameTool(e, batch[i])
                                          /\ \A j \in DOMAIN batch :
                                                SameTool(e, batch[j]) => j <= i
                           IN  /\ f.name = batch[last].name
                               /\ f.lastUpdated = now'
                      ELSE f = e
          /\ \A f \in catalog' :
               (\A e \in catalog : e.id # f.id) =>
                   f.firstDiscovered = now' /\ f.lastUpdated = now']_vars

\* A tool inserted by the first merge was renamed by the third through
\* another spelling of its URL.
C25_Witness ==
    /\ now = 3
    /\ mpc = "merged"
    /\ mergeSummary.updatedCount = 1
    /\ \E i \in DOMAIN batch : batch[i].url # NormalizeUrl(batch[i].url)
    /\ \E e \in catalog :
         /\ e.firstDiscovered = 1
         /\ e.lastUpdated = 3
         /\ e.id = 1


C28_EmailsUnique ==
    [][/\ \A e \in Emails : Cardinality({u \in users' : u.email = e}) <= 1
       /\ \A r \in RequestIds :
             (reqStatus[r] = 0 /\ reqStatus'[r] # 0
                  /\ UsersOf(reqEmail[r]) # {})
                => (reqStatus'[r] = 400 /\ users' = users)]_vars


\* C29: authService is authenticated exactly when its user is not null;
\* after a login it is authenticated as the local user, after a logout it
\* is unauthenticated with user null, and a further call of the same method
\* changes nothing.
C29_ServiceConsistent ==
    /\ authService.isAuthenticated <=> authService.user # NoUser
    /\ lastCall = "login" =>
          /\ authService = [isAuthenticated |-> TRUE, user |-> LocalUser]
          /\ login(authService) = authService
    /\ lastCall = "logout" =>
          /\ authService = [isAuthenticated |-> FALSE, user |-> NoUser]
          /\ logout(authService) = authService

\* login was called after a logout and both awaits are still waiting.
C29_Witness ==
    /\ lastCall = "login"
    /\ pending = <<"logout", "login">>
    /\ authService.isAuthenticated


====
